---- MODULE Spec2Model ----
(***************************************************************************)
(* A model of fix_format_strings.py: the collector that parses `go vet`    *)
(* diagnostics (get_format_string_errors), the line patcher                *)
(* (fix_format_string_in_file) with its four ordered regex rewrite rules,  *)
(* and the orchestration in main.                                          *)
(*                                                                         *)
(* Text is a sequence of tokens.  A token stands for a piece of text that  *)
(* the regular expressions of the script treat as a unit:                  *)
(*   "F" fmt.Fprintf(   "E" fmt.Errorf(   "S" fmt.Sprintf(                 *)
(*   "U" util.UsageErrorf(     ","  ")"  " "  single characters            *)
(*   "NL" the newline character that readlines() leaves on a line          *)
(*   "x" an identifier character, "q" a string literal such as "text",     *)
(*   "p" the literal "%s" that the replacements insert                     *)
(* and, in analyzer output, ":" , the digits "0".."9", path and function   *)
(* names, and "NCFS", the text ` non-constant format string in call to `.  *)
(***************************************************************************)
EXTENDS Integers, Sequences, FiniteSets, TLC

----------------------------------------------------------------------------
(* Bounds of the model *)

MaxLineLen == 4
MaxCalls == 2
MaxDiag == 2
MaxFileLines == 2

----------------------------------------------------------------------------
(* The regular expression engine (Python's re: leftmost match, greedy      *)
(* quantifiers with backtracking)                                          *)

Lit(t) == [kind |-> "lit", tok |-> t, neg |-> FALSE, set |-> {}, grp |-> 0]
Plus(negated, s, g) == [kind |-> "plus", tok |-> "", neg |-> negated, set |-> s, grp |-> g]
Star(negated, s) == [kind |-> "star", tok |-> "", neg |-> negated, set |-> s, grp |-> 0]

InClass(t, e) == IF e.neg THEN t \notin e.set ELSE t \in e.set

Whitespace == {" ", "NL"}
Digits == {"0", "1", "2", "3", "4", "5", "6", "7", "8", "9"}

NoMatch == [ok |-> FALSE, last |-> 0, caps |-> <<>>]

(* The longest run of tokens of the class of e that starts at l[i]. *)
RECURSIVE MaxRun(_, _, _)
MaxRun(e, l, i) ==
    IF i <= Len(l) /\ InClass(l[i], e) THEN 1 + MaxRun(e, l, i + 1) ELSE 0

SetMax(S) == CHOOSE m \in S : \A k \in S : k <= m

(* Match elements k.. of pattern pat against l from position i; caps are   *)
(* the groups captured so far.  A quantifier takes the longest run first   *)
(* and gives tokens back until the rest of the pattern matches.            *)
RECURSIVE MatchFrom(_, _, _, _, _)
MatchFrom(pat, k, l, i, caps) ==
    IF k > Len(pat) THEN [ok |-> TRUE, last |-> i - 1, caps |-> caps]
    ELSE LET e == pat[k] IN
         IF e.kind = "lit"
         THEN IF i <= Len(l) /\ l[i] = e.tok
              THEN MatchFrom(pat, k + 1, l, i + 1, caps)
              ELSE NoMatch
         ELSE LET lo == IF e.kind = "plus" THEN 1 ELSE 0
                  hi == MaxRun(e, l, i)
                  Caps(m) == IF e.grp = 0 THEN caps
                             ELSE [caps EXCEPT ![e.grp] = SubSeq(l, i, i + m - 1)]
                  good == {m \in lo..hi : MatchFrom(pat, k + 1, l, i + m, Caps(m)).ok}
              IN IF good = {} THEN NoMatch
                 ELSE MatchFrom(pat, k + 1, l, i + SetMax(good), Caps(SetMax(good)))

NoCaps == <<<<>>, <<>>, <<>>>>

(* re.match: the pattern matched at the start of the text. *)
re_match(pat, l) == MatchFrom(pat, 1, l, 1, NoCaps)

MatchAt(pat, l, i) == MatchFrom(pat, 1, l, i, NoCaps)

(* re.search as a truth value: the pattern matches somewhere. *)
re_search(pat, l) == \E i \in 1..Len(l) : MatchAt(pat, l, i).ok

----------------------------------------------------------------------------
(* The four rewrite rules of fix_format_string_in_file, in their order *)

(* fmt\.Fprintf\(([^,]+),\s*([^,\)]+)\)  ->  fmt.Fprintf(\1, "%s", \2) *)
PatFprintf == <<Lit("F"), Plus(TRUE, {","}, 1), Lit(","), Star(FALSE, Whitespace),
                Plus(TRUE, {",", ")"}, 2), Lit(")")>>

(* The Fprintf replacement without the "%s" argument *)
ReplFprintf_NoFormat(g) == <<"F">> \o g[1] \o <<",", " ">> \o g[2] \o <<")">>

ReplFprintf(g) == <<"F">> \o g[1] \o <<",", " ", "p", ",", " ">> \o g[2] \o <<")">>

(* The Errorf pattern with an argument class that lets a comma through *)
PatErrorf_AnyArgument == <<Lit("E"), Plus(TRUE, {")"}, 1), Lit(")")>>

(* fmt\.Errorf\(([^,\)]+)\)  ->  fmt.Errorf("%s", \1) *)
PatErrorf == <<Lit("E"), Plus(TRUE, {",", ")"}, 1), Lit(")")>>
ReplErrorf(g) == <<"E", "p", ",", " ">> \o g[1] \o <<")">>

(* fmt\.Fprintf\(([^,]+),\s*fmt\.Sprintf\(([^)]+)\)\)  ->  fmt.Fprintf(\1, \2) *)
PatUnwrap == <<Lit("F"), Plus(TRUE, {","}, 1), Lit(","), Star(FALSE, Whitespace),
               Lit("S"), Plus(TRUE, {")"}, 2), Lit(")"), Lit(")")>>
ReplUnwrap(g) == <<"F">> \o g[1] \o <<",", " ">> \o g[2] \o <<")">>

(* util\.UsageErrorf\(([^,\)]+)\)  ->  util.UsageErrorf("%s", \1) *)
PatUsageErrorf == <<Lit("U"), Plus(TRUE, {",", ")"}, 1), Lit(")")>>
ReplUsageErrorf(g) == <<"U", "p", ",", " ">> \o g[1] \o <<")">>

Rules == 1..4

patterns == <<PatFprintf, PatErrorf, PatUnwrap, PatUsageErrorf>>

(* The replacement template of rule r expanded with the groups g *)
replacement(r, g) ==
    CASE r = 1 -> ReplFprintf(g)
      [] r = 2 -> ReplErrorf(g)
      [] r = 3 -> ReplUnwrap(g)
      [] r = 4 -> ReplUsageErrorf(g)

(* re.sub: every non-overlapping match of the pattern of rule r, leftmost  *)
(* first, replaced by the expanded template; the scan resumes after the    *)
(* match.                                                                  *)
RECURSIVE re_sub(_, _, _)
re_sub(r, l, pos) ==
    LET starts == {i \in pos..Len(l) : MatchAt(patterns[r], l, i).ok} IN
    IF starts = {} THEN SubSeq(l, pos, Len(l))
    ELSE LET i == CHOOSE s \in starts : \A t \in starts : s <= t
             m == MatchAt(patterns[r], l, i)
         IN SubSeq(l, pos, i - 1) \o replacement(r, m.caps) \o re_sub(r, l, m.last + 1)

(* re.sub(pattern, replacement, line) for rule r of the list *)
ApplyRule(r, l) == re_sub(r, l, 1)

RuleMatches(r, l) == re_search(patterns[r], l)

(* The loop over patterns: the first rule whose pattern matches is applied  *)
(* and the loop breaks; rule 0 stands for no rule matching.                *)
FirstRule(l) ==
    LET matching == {r \in Rules : RuleMatches(r, l)} IN
    IF matching = {} THEN 0 ELSE CHOOSE r \in matching : \A s \in matching : r <= s

----------------------------------------------------------------------------
(* Files.  A file on disk is a sequence of lines, each a text without      *)
(* newline and the terminator that follows it: "LF", "CRLF", "CR", or      *)
(* "NONE" for a last line that no terminator ends.  NoFile is a path that  *)
(* does not exist.                                                         *)

NoFile == [there |-> FALSE, lines |-> <<>>]

File(content) == [there |-> TRUE, lines |-> content]

FileNames == {<<"a.go">>, <<"b.go">>}

(* os.linesep of the platform of the hard-coded /home/... project root *)
os_linesep == "LF"

os_path_exists(fsys, path) == path \in DOMAIN fsys /\ fsys[path].there

(* f.readlines() of a file opened in text mode: universal newlines turn    *)
(* every terminator into one "\n" kept at the end of the line.             *)
readlines(content) ==
    [i \in 1..Len(content) |->
        content[i].txt \o (IF content[i].eol = "NONE" THEN <<>> ELSE <<"NL">>)]

RECURSIVE Flatten(_)
Flatten(ls) == IF ls = <<>> THEN <<>> ELSE Head(ls) \o Flatten(Tail(ls))

(* The text split at its "\n" characters into disk lines; text mode writes *)
(* os.linesep for each "\n".                                               *)
RECURSIVE ToDisk(_, _)
ToDisk(text, cur) ==
    IF text = <<>>
    THEN IF cur = <<>> THEN <<>> ELSE <<[txt |-> cur, eol |-> "NONE"]>>
    ELSE IF Head(text) = "NL"
         THEN <<[txt |-> cur, eol |-> os_linesep]>> \o ToDisk(Tail(text), <<>>)
         ELSE ToDisk(Tail(text), Append(cur, Head(text)))

(* open(path, 'w') followed by f.writelines(lines) *)
writelines(ls) == ToDisk(Flatten(ls), <<>>)

(* lines[line_num - 1]: the position in 1..Len(ls) that Python's index     *)
(* line_num - 1 names, a negative index counting from the end; 0 when the  *)
(* index is out of range (IndexError).                                     *)
PyIndex(line_num, ls) ==
    LET j == line_num - 1 IN
    IF j >= 0 /\ j < Len(ls) THEN j + 1
    ELSE IF j < 0 /\ j + Len(ls) >= 0 THEN j + Len(ls) + 1
    ELSE 0

LineOutOfRange(line_num, ls) == line_num > Len(ls)

Outcome(fsys, success, what, r) == [fs |-> fsys, ok |-> success, outcome |-> what, rule |-> r]

(* What the environment does to the file operations of one call: nothing,  *)
(* a failure of the read, a failure of open(path, 'w'), or a failure of    *)
(* the write after the k first lines reached the disk.                     *)
FaultChoices(fsys, path) ==
    {<<"ok", 0>>, <<"read_error", 0>>, <<"open_error", 0>>} \cup
    {<<"write_error", k>> : k \in 0..(IF os_path_exists(fsys, path)
                                      THEN Len(fsys[path].lines) ELSE 0)}

(* File not found, answered with success *)
NotFound_ReturnsTrue(fsys, path) == Outcome(fsys, TRUE, "notfound", 0)

(* File not found: reported, nothing touched. *)
NotFound(fsys, path) == Outcome(fsys, FALSE, "notfound", 0)

(* The branch that writes the file back.  open(path, 'w') truncates the    *)
(* file; a failure of the write after that leaves the k lines that reached *)
(* the disk, and the except clause returns False.                          *)
WriteBack(fsys, path, ls, r, c) ==
    CASE c[1] = "open_error" -> Outcome(fsys, FALSE, "error", r)
      [] c[1] = "write_error" ->
            Outcome([fsys EXCEPT ![path] = File(writelines(SubSeq(ls, 1, c[2])))],
                    FALSE, "error", r)
      [] OTHER -> Outcome([fsys EXCEPT ![path] = File(writelines(ls))], TRUE, "fixed", r)

(* fix_format_string_in_file(filepath, line_num, function_name) on the     *)
(* file system fsys: what the call returns and leaves on disk, for each    *)
(* thing c the environment may do to its file operations.                  *)
fix_format_string_in_file(fsys, filepath, line_num) ==
    IF ~os_path_exists(fsys, filepath)
    THEN [c \in FaultChoices(fsys, filepath) |-> NotFound(fsys, filepath)]
    ELSE LET lines == readlines(fsys[filepath].lines)
             j == PyIndex(line_num, lines)
             original_line == lines[j]
             r == FirstRule(original_line)
             fixed_line == IF r = 0 THEN original_line ELSE ApplyRule(r, original_line)
         IN [c \in FaultChoices(fsys, filepath) |->
               IF c[1] = "read_error" THEN Outcome(fsys, FALSE, "error", 0)
               ELSE IF LineOutOfRange(line_num, lines) THEN Outcome(fsys, FALSE, "range", 0)
               ELSE IF j = 0 THEN Outcome(fsys, FALSE, "error", 0)
               ELSE IF fixed_line # original_line
                    THEN WriteBack(fsys, filepath, [lines EXCEPT ![j] = fixed_line], r, c)
                    ELSE Outcome(fsys, FALSE, "nomatch", r)]

----------------------------------------------------------------------------
(* The collector: get_format_string_errors                                 *)

(* ([^:]+):(\d+):\d+: non-constant format string in call to (.+) *)
PatDiagnostic == <<Plus(TRUE, {":"}, 1), Lit(":"), Plus(FALSE, Digits, 2), Lit(":"),
                   Plus(FALSE, Digits, 0), Lit(":"), Lit("NCFS"), Plus(TRUE, {"NL"}, 3)>>

(* Tokens whose text holds the words `non-constant format string` *)
PhraseTokens == {"NCFS", "ncfs"}

ContainsPhrase(l) == \E i \in 1..Len(l) : l[i] \in PhraseTokens

DigitValue(d) == CHOOSE v \in 0..9 : ToString(v) = d

(* int(s) of a string of decimal digits *)
RECURSIVE int(_)
int(s) == IF s = <<>> THEN 0 ELSE 10 * int(SubSeq(s, 1, Len(s) - 1)) + DigitValue(s[Len(s)])

(* text.split('\n') *)
RECURSIVE split(_, _)
split(text, cur) ==
    IF text = <<>> THEN <<cur>>
    ELSE IF Head(text) = "NL" THEN <<cur>> \o split(Tail(text), <<>>)
         ELSE split(Tail(text), Append(cur, Head(text)))

(* The loop over the lines of stderr: one record for each line that holds  *)
(* the phrase and that the pattern matches from its start.                 *)
RECURSIVE ParseLines(_)
ParseLines(ls) ==
    IF ls = <<>> THEN <<>>
    ELSE LET line == Head(ls)
             match == re_match(PatDiagnostic, line)
         IN (IF ContainsPhrase(line) /\ match.ok
             THEN <<[file |-> match.caps[1], line |-> int(match.caps[2]),
                     function |-> match.caps[3]]>>
             ELSE <<>>) \o ParseLines(Tail(ls))

(* What get_format_string_errors returns: the records parsed from stderr,  *)
(* or the empty list when subprocess.run raised.                           *)
get_format_string_errors(launched, stderr) ==
    IF launched THEN ParseLines(split(stderr, <<>>)) ELSE <<>>

----------------------------------------------------------------------------
(* State *)

VARIABLES
    fs,           \* the project tree: path -> file content or NoFile
    fs0,          \* the project tree when the run started
    rec,          \* the record a direct caller hands to the patcher
    trace,        \* one entry per call of fix_format_string_in_file
    pc,           \* where main is
    errors,       \* main's list of records
    idx,          \* how many records the for loop has taken
    fixed_count,  \* main's counter
    vet_calls,    \* how many times subprocess.run was called
    probe         \* a line, the rule applied to it and the result

vars == <<fs, fs0, rec, trace, pc, errors, idx, fixed_count, vet_calls, probe>>

----------------------------------------------------------------------------
(* Inputs *)

Range(f) == {f[c] : c \in DOMAIN f}

SeqsUpTo(S, n) == UNION {[1..k -> S] : k \in 0..n}

Alphabet == {"F", "E", "S", "U", ",", ")", "x", " "}

(* The lines of the scenarios of the documentation, and longer lines with  *)
(* several calls, literals and nested calls.                               *)
ScenarioLines == {
    <<"F", "x", ",", " ", "x", ")">>,
    <<"E", "x", ")">>,
    <<"F", "x", ",", " ", "S", "q", ",", " ", "x", ")", ")">>,
    <<"F", "x", ",", " ", "S", "x", ")", ")">>,
    <<"F", "x", ",", " ", "p", ",", " ", "x", ")">>,
    <<"F", "x", ",", " ", "q", ")">>,
    <<"E", "q", ")">>,
    <<"U", "q", ")">>,
    <<"E", "x", ")", " ", "U", "x", ")">>,
    <<"E", "E", "x", ")", ")">>,
    <<"F", "x", ",", " ", "F", "x", ")", ",", " ", "x", ")">>,
    <<"F", "x", ",", " ", "S", "S", "x", ",", "x", ")", ")", ")">> }

Lines == SeqsUpTo(Alphabet, MaxLineLen) \cup ScenarioLines

Terminators == {"LF", "CRLF"}

ShapeLines == {<<"x">>, <<"E", "x", ")">>}

(* Well-formed files: only the last line may lack its terminator. *)
ShapeContents ==
    {c \in SeqsUpTo([txt : ShapeLines, eol : Terminators \cup {"NONE"}], MaxFileLines) :
        \A i \in 1..(Len(c) - 1) : c[i].eol # "NONE"}

Record(f, n) == [file |-> f, line |-> n, function |-> <<"fn">>]

AllRecords == {Record(f, n) : f \in FileNames, n \in 0..(MaxFileLines + 1)}

(* Lines of analyzer output: diagnostics of the expected shape for both    *)
(* paths and several line numbers, and lines of other shapes.              *)
LineNumbers == {<<"0">>, <<"1">>, <<"2">>, <<"1", "0">>}

DiagnosticLines ==
    {f \o <<":">> \o n \o <<":", "1", ":", "NCFS", "fn">> : f \in FileNames, n \in LineNumbers}

OtherLines == {<<"txt">>, <<"a.go", ":", "1", ":", "1", ":", "txt", "ncfs">>}

StderrLines == DiagnosticLines \cup OtherLines

(* The text of stderr: up to MaxDiag lines, each ended by a newline *)
StderrTexts ==
    {Flatten([i \in 1..Len(ls) |-> ls[i] \o <<"NL">>]) : ls \in SeqsUpTo(StderrLines, MaxDiag)}

MainContents == {
    <<[txt |-> <<"E", "x", ")">>, eol |-> "LF"]>>,
    <<[txt |-> <<"x">>, eol |-> "CRLF"], [txt |-> <<"F", "x", ",", "x", ")">>, eol |-> "CRLF"]>>,
    <<[txt |-> <<"x">>, eol |-> "LF"], [txt |-> <<"E", "x", ")", "U", "x", ")">>, eol |-> "NONE"]>> }

Tree(content) == [f \in FileNames |-> IF f = <<"a.go">> THEN File(content) ELSE NoFile]

----------------------------------------------------------------------------
(* The patcher called on its own *)

Entry(r, before, res) ==
    [rec |-> r, before |-> before, after |-> res.fs, ok |-> res.ok,
     outcome |-> res.outcome, rule |-> res.rule]

InitPatch ==
    /\ \/ \E l \in Lines :
            /\ fs = Tree(<<[txt |-> l, eol |-> "LF"]>>)
            /\ rec = Record(<<"a.go">>, 1)
       \/ \E c \in ShapeContents :
            /\ fs = Tree(c)
            /\ rec \in AllRecords
    /\ fs0 = fs
    /\ trace = <<>>
    /\ pc = "patcher"
    /\ errors = <<>>
    /\ idx = 0
    /\ fixed_count = 0
    /\ vet_calls = 0
    /\ probe = [line |-> <<>>, rule |-> 0, out |-> <<>>]

PatchCall ==
    /\ pc = "patcher"
    /\ Len(trace) < MaxCalls
    /\ \E res \in Range(fix_format_string_in_file(fs, rec.file, rec.line)) :
          /\ fs' = res.fs
          /\ trace' = Append(trace, Entry(rec, fs, res))
    /\ UNCHANGED <<fs0, rec, pc, errors, idx, fixed_count, vet_calls, probe>>

NextPatch == PatchCall

SpecPatch == InitPatch /\ [][NextPatch]_vars

----------------------------------------------------------------------------
(* One rule applied to one line *)

InitRules ==
    /\ \E l \in Lines : probe = [line |-> l, rule |-> 0, out |-> l]
    /\ fs = Tree(<<>>)
    /\ fs0 = fs
    /\ rec = Record(<<"a.go">>, 1)
    /\ trace = <<>>
    /\ pc = "rules"
    /\ errors = <<>>
    /\ idx = 0
    /\ fixed_count = 0
    /\ vet_calls = 0

(* if re.search(pattern, line): line = re.sub(pattern, replacement, line) *)
Rewrite ==
    /\ pc = "rules"
    /\ probe.rule = 0
    /\ \E r \in Rules :
          /\ RuleMatches(r, probe.line)
          /\ probe' = [probe EXCEPT !.rule = r, !.out = ApplyRule(r, probe.line)]
    /\ UNCHANGED <<fs, fs0, rec, trace, pc, errors, idx, fixed_count, vet_calls>>

NextRules == Rewrite

SpecRules == InitRules /\ [][NextRules]_vars

----------------------------------------------------------------------------
(* main *)

Init ==
    /\ \E c \in MainContents : fs = Tree(c)
    /\ fs0 = fs
    /\ rec = Record(<<"a.go">>, 1)
    /\ trace = <<>>
    /\ pc = "start"
    /\ errors = <<>>
    /\ idx = 0
    /\ fixed_count = 0
    /\ vet_calls = 0
    /\ probe = [line |-> <<>>, rule |-> 0, out |-> <<>>]

(* errors = get_format_string_errors(); if not errors: return *)
Collect ==
    /\ pc = "start"
    /\ vet_calls' = vet_calls + 1
    /\ \E launched \in BOOLEAN : \E stderr \in StderrTexts :
          errors' = get_format_string_errors(launched, stderr)
    /\ pc' = IF errors' = <<>> THEN "done" ELSE "loop"
    /\ UNCHANGED <<fs, fs0, rec, trace, idx, fixed_count, probe>>

(* One turn of the for loop over errors *)
PatchNext ==
    /\ pc = "loop"
    /\ idx < Len(errors)
    /\ LET error == errors[idx + 1] IN
       \E res \in Range(fix_format_string_in_file(fs, error.file, error.line)) :
          /\ fs' = res.fs
          /\ trace' = Append(trace, Entry(error, fs, res))
          /\ fixed_count' = IF res.ok THEN fixed_count + 1 ELSE fixed_count
    /\ idx' = idx + 1
    /\ UNCHANGED <<fs0, rec, pc, errors, vet_calls, probe>>

(* The test of the second run without regard to the counter *)
NeedsVerification_Always(count) == count >= 0

(* if fixed_count > 0 *)
NeedsVerification(count) == count > 0

(* After the loop: the summary, and the test that decides the second run *)
Summary ==
    /\ pc = "loop"
    /\ idx = Len(errors)
    /\ pc' = IF NeedsVerification(fixed_count) THEN "verify" ELSE "done"
    /\ UNCHANGED <<fs, fs0, rec, trace, errors, idx, fixed_count, vet_calls, probe>>

(* subprocess.run a second time, outside any try: a launch failure leaves  *)
(* main through the exception.                                             *)
Verify ==
    /\ pc = "verify"
    /\ vet_calls' = vet_calls + 1
    /\ \E launched \in BOOLEAN : pc' = IF launched THEN "done" ELSE "crashed"
    /\ UNCHANGED <<fs, fs0, rec, trace, errors, idx, fixed_count, probe>>

Next == Collect \/ PatchNext \/ Summary \/ Verify

Spec == Init /\ [][Next]_vars

----------------------------------------------------------------------------
(* Vocabulary of the properties *)

Count(l, S) == Cardinality({i \in 1..Len(l) : l[i] \in S})

Calls == {"F", "E", "U"}

Literals == {"q", "p"}

(* At most one of the calls the rules rewrite, and at most one Sprintf *)
SingleCall(l) == Count(l, Calls) <= 1 /\ Count(l, {"S"}) <= 1

(* Each call name of the pattern of rule r occurs exactly once in l *)
OneCallOfRule(r, l) ==
    CASE r = 1 -> Count(l, {"F"}) = 1
      [] r = 2 -> Count(l, {"E"}) = 1
      [] r = 3 -> Count(l, {"F"}) = 1 /\ Count(l, {"S"}) = 1
      [] r = 4 -> Count(l, {"U"}) = 1

Before(e) == e.before[e.rec.file].lines
After(e) == e.after[e.rec.file].lines

(* The call found the file and the 1-based line the record names *)
Located(e) ==
    /\ os_path_exists(e.before, e.rec.file)
    /\ e.rec.line \in 1..Len(Before(e))

(* The call ran its rules: no failure of the environment stopped it *)
RanRules(e) == Located(e) /\ e.outcome \in {"fixed", "nomatch"}

Target(e) == Before(e)[e.rec.line].txt

(* The texts of the lines that the call changed on disk *)
Rewritten(e) ==
    {Before(e)[i].txt : i \in {k \in 1..Len(Before(e)) :
                                 k > Len(After(e)) \/ After(e)[k].txt # Before(e)[k].txt}}

(* fmt.Fprintf(W, fmt.Sprintf(ARGS)) with the comma of l at position j *)
UnwrapFormAt(l, j) ==
    /\ j >= 3 /\ j + 5 <= Len(l)
    /\ l[1] = "F"
    /\ \A i \in 2..(j - 1) : l[i] # ","
    /\ l[j] = "," /\ l[j + 1] = " " /\ l[j + 2] = "S"
    /\ \A i \in (j + 3)..(Len(l) - 2) : l[i] # ")"
    /\ l[Len(l) - 1] = ")" /\ l[Len(l)] = ")"

UnwrapForm(l) == \E j \in 1..Len(l) : UnwrapFormAt(l, j)

(* fmt.Fprintf(W, ARGS) for a line of that form *)
Unwrapped(l) ==
    LET j == CHOOSE k \in 1..Len(l) : UnwrapFormAt(l, k)
    IN SubSeq(l, 1, j + 1) \o SubSeq(l, j + 3, Len(l) - 1)

(* The first token after position i that is not a space, "" when none *)
NextWord(l, i) ==
    LET rest == {k \in (i + 1)..Len(l) : l[k] # " "} IN
    IF rest = {} THEN "" ELSE l[CHOOSE k \in rest : \A m \in rest : k <= m]

(* Every call on the line has a string literal as its format argument:    *)
(* the first argument of Errorf and UsageErrorf, the second of Fprintf.    *)
AlreadyCorrect(l) ==
    /\ Count(l, Calls) >= 1
    /\ \A i \in 1..Len(l) :
         /\ l[i] \in {"E", "U"} => NextWord(l, i) \in Literals
         /\ l[i] = "F" =>
              \E j \in (i + 2)..Len(l) :
                 /\ l[j] = ","
                 /\ \A k \in (i + 1)..(j - 1) : l[k] \notin {",", ")"} \cup Calls
                 /\ NextWord(l, j) \in Literals

----------------------------------------------------------------------------
(* Properties *)

(* C1, as stated: a call that follows a successful call with the same      *)
(* record, and that no failure of the environment interrupts, finds no     *)
(* matching rule, returns failure and leaves the file as the first call    *)
(* wrote it, whatever the target line.                                     *)
C1_SecondCallNoOp ==
    \A n \in 1..(Len(trace) - 1) :
        (/\ trace[n].ok
         /\ trace[n + 1].rec = trace[n].rec
         /\ trace[n + 1].outcome # "error") =>
            /\ ~trace[n + 1].ok
            /\ trace[n + 1].rule = 0
            /\ trace[n + 1].after = trace[n + 1].before

(* C1, amended: the same, for a first call that rewrote a line holding at  *)
(* most one call among fmt.Fprintf, fmt.Errorf and util.UsageErrorf and at *)
(* most one fmt.Sprintf.                                                   *)
C1_SecondCallNoOpSingleCall ==
    \A n \in 1..(Len(trace) - 1) :
        (/\ trace[n].ok
         /\ trace[n + 1].rec = trace[n].rec
         /\ \A l \in Rewritten(trace[n]) : SingleCall(l)) =>
            /\ ~trace[n + 1].ok
            /\ trace[n + 1].rule = 0
            /\ trace[n + 1].after = trace[n + 1].before

C1_Witness ==
    /\ Len(trace) >= 2
    /\ trace[1].ok
    /\ trace[2].rec = trace[1].rec
    /\ Rewritten(trace[1]) # {}
    /\ \A l \in Rewritten(trace[1]) : SingleCall(l)
    /\ trace[2].outcome = "nomatch"
    /\ trace[2].after = trace[1].after

(* C2, as stated: the line a rule produced from a line its pattern matches *)
(* is no longer matched by the pattern of that rule.                       *)
C2_RuleResultNotMatched ==
    probe.rule # 0 => ~RuleMatches(probe.rule, probe.out)

(* C2, amended: the same, for a line in which each call name of the        *)
(* pattern of the rule occurs exactly once.                                *)
C2_RuleResultNotMatchedOneCall ==
    (probe.rule # 0 /\ OneCallOfRule(probe.rule, probe.line)) =>
        ~RuleMatches(probe.rule, probe.out)

C2_Witness ==
    /\ probe.rule # 0
    /\ OneCallOfRule(probe.rule, probe.line)
    /\ probe.out # probe.line
    /\ ~RuleMatches(probe.rule, probe.out)

(* C3: on a target line fmt.Fprintf(W, fmt.Sprintf(ARGS)), W without comma *)
(* and ARGS without ')', the patcher applies the unwrap rule (rule 3) and  *)
(* writes fmt.Fprintf(W, ARGS).                                            *)
C3_UnwrapApplied ==
    \A n \in 1..Len(trace) :
        (RanRules(trace[n]) /\ UnwrapForm(Target(trace[n]))) =>
            /\ trace[n].rule = 3
            /\ trace[n].ok
            /\ After(trace[n])[trace[n].rec.line].txt = Unwrapped(Target(trace[n]))

(* C4: on a target line whose calls all have a string literal as format    *)
(* argument no rule matches, the patcher returns failure and the file is   *)
(* unchanged.                                                              *)
C4_CorrectLineUntouched ==
    \A n \in 1..Len(trace) :
        (RanRules(trace[n]) /\ AlreadyCorrect(Target(trace[n]))) =>
            /\ trace[n].rule = 0
            /\ ~trace[n].ok
            /\ trace[n].after = trace[n].before

(* C5: after a successful call the file has as many lines as before, the   *)
(* line at the 1-based position of the record is rewritten, and every      *)
(* other line is what it was, its terminator included.                     *)
C5_OtherLinesKept ==
    \A n \in 1..Len(trace) :
        (trace[n].ok /\ Located(trace[n])) =>
            /\ Len(After(trace[n])) = Len(Before(trace[n]))
            /\ After(trace[n])[trace[n].rec.line].txt # Target(trace[n])
            /\ \A i \in 1..Len(Before(trace[n])) :
                 i # trace[n].rec.line => After(trace[n])[i] = Before(trace[n])[i]

(* C6: a record whose file does not exist, or whose line exceeds the line  *)
(* count of its file, makes the patcher return failure and changes nothing *)
(* on disk; a missing file is not created.                                 *)
C6_TargetNotLocated ==
    \A n \in 1..Len(trace) :
        LET e == trace[n] IN
        /\ ~os_path_exists(e.before, e.rec.file) =>
              ~e.ok /\ e.after = e.before /\ ~os_path_exists(e.after, e.rec.file)
        /\ (os_path_exists(e.before, e.rec.file) /\ e.rec.line > Len(Before(e))) =>
              ~e.ok /\ e.after = e.before

C6_Witness ==
    /\ \E n \in 1..Len(trace) :
          /\ ~os_path_exists(trace[n].before, trace[n].rec.file)
          /\ trace[n].outcome = "notfound"
    /\ \E n \in 1..Len(trace) :
          /\ os_path_exists(trace[n].before, trace[n].rec.file)
          /\ trace[n].rec.line > Len(Before(trace[n]))
          /\ trace[n].outcome = "range"

(* C7: no failure aborts the run: main never ends through an unhandled     *)
(* error, and when it is past the loop the patcher was called once for     *)
(* each collected record, in the order of the collector.                   *)
C7_RunNeverAborts ==
    /\ pc # "crashed"
    /\ pc \in {"verify", "done"} =>
          /\ Len(trace) = Len(errors)
          /\ \A i \in 1..Len(errors) : trace[i].rec = errors[i]

(* C8: the analyzer runs at most twice; the first run comes before any     *)
(* file is touched; the second run happens if and only if a record was     *)
(* fixed, only after every record went to the patcher, and no file is      *)
(* written once it starts; a first run without records ends the run with   *)
(* nothing patched and no second run.                                      *)
C8_AnalyzerRuns ==
    /\ vet_calls <= 2
    /\ vet_calls = 0 => trace = <<>> /\ fs = fs0
    /\ vet_calls = 2 => \E n \in 1..Len(trace) : trace[n].ok
    /\ (pc \in {"verify", "done", "crashed"} /\ \E n \in 1..Len(trace) : trace[n].ok) =>
          pc = "verify" \/ vet_calls = 2
    /\ vet_calls = 2 =>
          /\ Len(trace) = Len(errors)
          /\ \A i \in 1..Len(errors) : trace[i].rec = errors[i]
          /\ fs = trace[Len(trace)].after
    /\ (vet_calls >= 1 /\ errors = <<>>) =>
          pc = "done" /\ vet_calls = 1 /\ trace = <<>> /\ fs = fs0

C8_Witness ==
    /\ pc = "done"
    /\ vet_calls = 2
    /\ \E n \in 1..Len(trace) : trace[n].ok
    /\ \E n \in 1..Len(trace) : ~trace[n].ok

(* C9: every record of the collector has a line number of at least 1, and  *)
(* a successful call of the patcher rewrites the line at the 1-based       *)
(* position its record names.                                              *)
C9_PositiveLine ==
    /\ \A i \in 1..Len(errors) : errors[i].line >= 1
    /\ \A n \in 1..Len(trace) :
          trace[n].ok =>
             /\ Located(trace[n])
             /\ After(trace[n])[trace[n].rec.line].txt # Target(trace[n])

(* C10: a call that returns failure, for whatever reason, leaves the file  *)
(* system as it was before the call.                                       *)
C10_FailureChangesNothing ==
    \A n \in 1..Len(trace) : ~trace[n].ok => trace[n].after = trace[n].before
====
